---- MODULE Spec2Model ----
(***************************************************************************)
(* Model of ParallelRegression.py: ridge regression by gradient descent    *)
(* with backtracking line search, or by solving the normal equations,      *)
(* together with the CSV reader/writer for data and for the vector beta.   *)
(*                                                                         *)
(* Reals are modelled as exact rationals <<num, den>> in lowest terms      *)
(* with den > 0.  An L2 norm is kept as its square, and comparisons with   *)
(* a norm are made on squares.  An RDD is a sequence of records <<x, y>>.  *)
(***************************************************************************)
EXTENDS Integers, Sequences, FiniteSets, TLC

VARIABLES
    mode,       \* which entry point is exercised
    pc,         \* position in that entry point
    data,       \* the RDD of (x, y) records
    lam,        \* regularization parameter
    beta_0,     \* train's parameter beta_0
    beta0,      \* the module-level name beta0 (set by __main__, else unbound)
    max_iter,   \* train's parameter
    eps,        \* train's parameter
    k,          \* train's local k
    beta,       \* train's local beta / the beta handed to test
    gd,         \* train's local gd
    norm_grad,  \* train's local norm_grad, kept as the squared norm
    ls_x, ls_grad, ls_a, ls_b,   \* lineSearch's arguments
    ls_t,       \* lineSearch's local t
    ls_j,       \* number of times line 70 has run in the current call
    ls_pc,      \* position in lineSearch
    ret,        \* value returned by the entry point
    file,       \* contents of the beta file
    lines       \* lines of the data file

vars == << mode, pc, data, lam, beta_0, beta0, max_iter, eps, k, beta, gd,
           norm_grad, ls_x, ls_grad, ls_a, ls_b, ls_t, ls_j, ls_pc, ret,
           file, lines >>

----------------------------------------------------------------------------
(* Bounds *)

MaxIter == 2
MaxShrink == 4
MaxLen == 2
MaxFields == 2

----------------------------------------------------------------------------
(* Exact rational arithmetic.  Let1..Let3 bind operands through a set     *)
(* constructor, which evaluates each of them exactly once.                 *)

Let1(v, Op(_)) == CHOOSE r \in { Op(x) : x \in {v} } : TRUE

Let2(v, w, Op(_, _)) == CHOOSE r \in { Op(x, y) : x \in {v}, y \in {w} } : TRUE

Let3(u, v, w, Op(_, _, _)) ==
    CHOOSE r \in { Op(x, y, z) : x \in {u}, y \in {v}, z \in {w} } : TRUE

Abs(n) == IF n < 0 THEN -n ELSE n

RECURSIVE GcdV(_, _)
GcdV(m, n) == IF n = 0 THEN m ELSE Let2(n, m % n, GcdV)

Gcd(m, n) == Let2(m, n, GcdV)

Lcm(m, n) == Let2(m, n, LAMBDA a, b : (a \div GcdV(a, b)) * b)

Rat(n, d) ==
    Let3(n, d, Gcd(Abs(n), Abs(d)),
         LAMBDA a, b, g : IF b < 0 THEN << -(a \div g), -(b \div g) >>
                                   ELSE << a \div g, b \div g >>)

R(n) == << n, 1 >>

RAddV(p, q) ==
    Let1(Lcm(p[2], q[2]),
         LAMBDA l : Rat(p[1] * (l \div p[2]) + q[1] * (l \div q[2]), l))

RAdd(p, q) == Let2(p, q, RAddV)

RNeg(p) == Let1(p, LAMBDA a : << -a[1], a[2] >>)

RSub(p, q) == RAdd(p, RNeg(q))

RMulV(p, q) ==
    Let2(Gcd(Abs(p[1]), q[2]), Gcd(Abs(q[1]), p[2]),
         LAMBDA g1, g2 : Rat((p[1] \div g1) * (q[1] \div g2),
                             (p[2] \div g2) * (q[2] \div g1)))

RMul(p, q) == Let2(p, q, RMulV)

RLtV(p, q) ==
    \E l \in { Lcm(p[2], q[2]) } : p[1] * (l \div p[2]) < q[1] * (l \div q[2])

RLt(p, q) == \E << a, b >> \in { << p, q >> } : RLtV(a, b)

RLe(p, q) == ~ RLt(q, p)

----------------------------------------------------------------------------
(* numpy vectors as sequences of rationals *)

\* the sequence s with every element evaluated
Tup(s) == SubSeq(s, 1, Len(s))

RECURSIVE RSumFrom(_, _, _)
RSumFrom(s, i, acc) ==
    IF i > Len(s) THEN acc ELSE Let3(s, i + 1, RAddV(acc, s[i]), RSumFrom)

RSum(s) == Let3(Tup(s), 1, R(0), RSumFrom)

Dot(u, v) ==
    Let2(Tup(u), Tup(v),
         LAMBDA a, b : RSum([i \in 1..Len(a) |-> RMulV(a[i], b[i])]))

VAdd(u, v) ==
    Let2(Tup(u), Tup(v),
         LAMBDA a, b : Tup([i \in 1..Len(a) |-> RAddV(a[i], b[i])]))

VSub(u, v) ==
    Let2(Tup(u), Tup(v),
         LAMBDA a, b : Tup([i \in 1..Len(a) |-> RSub(a[i], b[i])]))

VScale(c, v) ==
    Let2(c, Tup(v), LAMBDA a, b : Tup([i \in 1..Len(b) |-> RMulV(a, b[i])]))

Zeros(d) == [i \in 1..d |-> R(0)]

\* np.linalg.norm, kept as the square of its value
NormSq(v) == Let1(Tup(v), LAMBDA a : Dot(a, a))

\* p < sqrt(sq), for sq >= 0
LtNorm(p, sq) == p[1] < 0 \/ RLt(RMul(p, p), sq)

\* sqrt(sq) < p, for sq >= 0
NormLt(sq, p) == p[1] > 0 /\ RLt(sq, RMul(p, p))

IntVec(t) == [i \in 1..Len(t) |-> R(t[i])]

Rec(x, y) == << IntVec(x), R(y) >>

----------------------------------------------------------------------------
(* Objective *)

f(x, y, b) == Let1(RSub(y, Dot(b, x)), LAMBDA r : RMulV(r, r))

localGradient(x, y, b) ==
    VScale(RMul(R(-2), RSub(y, Dot(b, x))), x)

DefaultLam == R(1)

F(dat, b, l) ==
    Let3(dat, Tup(b), l,
         LAMBDA d, v, c :
             RAdd(RMul(Rat(1, Len(d)),
                       RSum([i \in 1..Len(d) |-> f(d[i][1], d[i][2], v)])),
                  RMul(c, Dot(v, v))))

RECURSIVE VSumFrom(_, _, _)
VSumFrom(s, i, acc) ==
    IF i > Len(s) THEN acc ELSE Let3(s, i + 1, VAdd(acc, s[i]), VSumFrom)

\* rdd.reduce(lambda v1, v2: v1 + v2) on a non-empty sequence of vectors
VReduce(s) == Let1(Tup(s), LAMBDA a : VSumFrom(a, 2, a[1]))

gradient(dat, b, l) ==
    Let3(dat, Tup(b), l,
         LAMBDA d, v, c :
             VAdd(VScale(Rat(1, Len(d)),
                         VReduce([i \in 1..Len(d) |->
                                     localGradient(d[i][1], d[i][2], v)])),
                  VScale(RMul(R(2), c), v)))

test(dat, b) == F(dat, b, DefaultLam)

----------------------------------------------------------------------------
(* lineSearch *)

\* some_fun, the closure train hands to lineSearch
some_fun(v) == F(data, v, lam)

DefaultA == Rat(1, 5)

DefaultB == Rat(3, 5)

\* lineSearchCond without the sufficient-decrease term a * t * <grad, grad>
lineSearchCondNoDecrease(x, grad, a, t) ==
    RLt(some_fun(x), some_fun(VSub(x, VScale(t, grad))))

\* the while condition of lineSearch
lineSearchCond(x, grad, a, t) ==
    RLt(RSub(some_fun(x), RMul(RMul(a, t), Dot(grad, grad))),
        some_fun(VSub(x, VScale(t, grad))))

\* Shrink that leaves t as it is
ShrinkNone(b, t) == t

\* the body of the while loop of lineSearch
Shrink(b, t) == RMul(b, t)

\* The loop of lineSearch has no cap; ls_j < MaxShrink bounds the model.
LSShrink ==
    /\ ls_pc = "search"
    /\ lineSearchCond(ls_x, ls_grad, ls_a, ls_t)
    /\ ls_j < MaxShrink
    /\ ls_t' = Shrink(ls_b, ls_t)
    /\ ls_j' = ls_j + 1
    /\ UNCHANGED << mode, pc, data, lam, beta_0, beta0, max_iter, eps, k, beta,
                    gd, norm_grad, ls_x, ls_grad, ls_a, ls_b, ls_pc, ret,
                    file, lines >>

LSReturn ==
    /\ ls_pc = "search"
    /\ ~ lineSearchCond(ls_x, ls_grad, ls_a, ls_t)
    /\ ls_pc' = "returned"
    /\ IF mode = "lineSearch"
       THEN pc' = "returned" /\ ret' = ls_t
       ELSE UNCHANGED << pc, ret >>
    /\ UNCHANGED << mode, data, lam, beta_0, beta0, max_iter, eps, k, beta, gd,
                    norm_grad, ls_x, ls_grad, ls_a, ls_b, ls_t, ls_j,
                    file, lines >>

----------------------------------------------------------------------------
(* train *)

\* A module-level name is << >> while unbound and << v >> once bound to v
Unbound == << >>

Bound(v) == << v >>

\* the while condition of train
LoopCond(kk, mi, e, ng) == kk < mi /\ LtNorm(e, ng)

\* StepBeta moving along the gradient instead of against it
StepBetaAscent(b, gamma, g) == VAdd(b, VScale(gamma, g))

\* beta = beta - gamma * gd
StepBeta(b, gamma, g) == VSub(b, VScale(gamma, g))

\* the name train reads its starting beta from: the module-level beta0
StartBeta == beta0

TrainEnter ==
    /\ mode = "train"
    /\ pc = "call"
    /\ IF StartBeta = Unbound
       THEN /\ pc' = "raised"
            /\ ret' = << "NameError" >>
            /\ UNCHANGED << k, beta, norm_grad >>
       ELSE /\ k' = 0
            /\ beta' = StartBeta[1]
            /\ norm_grad' = NormSq(gradient(data, StartBeta[1], lam))
            /\ pc' = "loop"
            /\ UNCHANGED ret
    /\ UNCHANGED << mode, data, lam, beta_0, beta0, max_iter, eps, gd,
                    ls_x, ls_grad, ls_a, ls_b, ls_t, ls_j, ls_pc, file, lines >>

\* MSE = F(data, beta, lam) of line 211 is only printed and is left out.
LoopEnter ==
    /\ mode = "train"
    /\ pc = "loop"
    /\ LoopCond(k, max_iter, eps, norm_grad)
    /\ gd' = gradient(data, beta, lam)
    /\ ls_x' = beta
    /\ ls_grad' = gd'
    /\ ls_a' = DefaultA
    /\ ls_b' = DefaultB
    /\ ls_t' = R(1)
    /\ ls_j' = 0
    /\ ls_pc' = "search"
    /\ pc' = "lineSearch"
    /\ UNCHANGED << mode, data, lam, beta_0, beta0, max_iter, eps, k, beta,
                    norm_grad, ret, file, lines >>

TrainUpdate ==
    /\ mode = "train"
    /\ pc = "lineSearch"
    /\ ls_pc = "returned"
    /\ beta' = StepBeta(beta, ls_t, gd)
    /\ norm_grad' = NormSq(gd)
    /\ k' = k + 1
    /\ pc' = "loop"
    /\ UNCHANGED << mode, data, lam, beta_0, beta0, max_iter, eps, gd,
                    ls_x, ls_grad, ls_a, ls_b, ls_t, ls_j, ls_pc, ret,
                    file, lines >>

TrainReturn ==
    /\ mode = "train"
    /\ pc = "loop"
    /\ ~ LoopCond(k, max_iter, eps, norm_grad)
    /\ ret' = << beta, norm_grad, k >>
    /\ pc' = "returned"
    /\ UNCHANGED << mode, data, lam, beta_0, beta0, max_iter, eps, k, beta, gd,
                    norm_grad, ls_x, ls_grad, ls_a, ls_b, ls_t, ls_j, ls_pc,
                    file, lines >>

----------------------------------------------------------------------------
(* Inputs of the optimisation entry points *)

\* values of names that are not in use: an empty vector, the number 0
NoVec == << >>

NoNum == R(0)

\* datasets whose descent iterates keep numerators and denominators within
\* TLC's integers
TrainData ==
    { << Rec(<<1>>, 1) >>,
      << Rec(<<1>>, 1), Rec(<<0>>, 2) >>,
      << Rec(<<1>>, 2), Rec(<<1>>, 0) >>,
      << Rec(<<1, 0>>, 1), Rec(<<0, 1>>, 2) >> }

TrainLams == { R(0), Rat(1, 4) }

EpsVals == { R(0), Rat(1, 100), R(2) }

LSData ==
    TrainData \cup { << Rec(<<2>>, 2) >>, << Rec(<<1, 1>>, 2) >> }

LSLams == { R(-1), R(0), R(1) }

Dim(dat) == Len(dat[1][1])

Ones(d) == [i \in 1..d |-> R(1)]

InitTrain ==
    /\ mode = "train"
    /\ pc = "call"
    /\ data \in TrainData
    /\ lam \in TrainLams
    /\ beta_0 \in { Zeros(Dim(data)), Ones(Dim(data)) }
    /\ beta0 \in { Unbound, Bound(Zeros(Dim(data))) }
    /\ max_iter \in 0..MaxIter
    /\ eps \in EpsVals
    /\ k = 0 /\ beta = NoVec /\ gd = NoVec /\ norm_grad = NoNum
    /\ ls_x = NoVec /\ ls_grad = NoVec /\ ls_a = NoNum /\ ls_b = NoNum
    /\ ls_t = NoNum /\ ls_j = 0 /\ ls_pc = "idle"
    /\ ret = NoVec /\ file = NoVec /\ lines = NoVec

InitLineSearch ==
    /\ mode = "lineSearch"
    /\ pc = "lineSearch"
    /\ data \in LSData
    /\ lam \in LSLams
    /\ ls_x \in { Zeros(Dim(data)), Ones(Dim(data)) }
    /\ ls_grad \in { gradient(data, ls_x, lam),
                      VScale(R(-1), gradient(data, ls_x, lam)),
                      Zeros(Dim(data)),
                      Ones(Dim(data)) }
    /\ ls_a \in { DefaultA, Rat(1, 2) }
    /\ ls_b \in { DefaultB, Rat(1, 2) }
    /\ ls_t = R(1) /\ ls_j = 0 /\ ls_pc = "search"
    /\ beta_0 = NoVec /\ beta0 = Unbound /\ max_iter = 0 /\ eps = NoNum
    /\ k = 0 /\ beta = NoVec /\ gd = NoVec /\ norm_grad = NoNum
    /\ ret = NoVec /\ file = NoVec /\ lines = NoVec

Init == InitTrain \/ InitLineSearch

Next ==
    \/ LSShrink
    \/ LSReturn
    \/ TrainEnter
    \/ LoopEnter
    \/ TrainUpdate
    \/ TrainReturn

Spec == Init /\ [][Next]_vars

FairSpec == Spec /\ WF_vars(Next)

----------------------------------------------------------------------------
(* aggregate and solve_beta.  A matrix is a sequence of rows. *)

IdeDim == 50

Identity(m) == [i \in 1..m |-> [j \in 1..m |-> IF i = j THEN R(1) ELSE R(0)]]

Failed(kind) == << kind, << >> >>

Ok(v) == << "ok", v >>

\* scalar + matrix, broadcast by numpy over every entry
ScalarPlusMatrix(c, M) ==
    [i \in 1..Len(M) |-> [j \in 1..Len(M[i]) |-> RAdd(c, M[i][j])]]

MScale(c, M) == [i \in 1..Len(M) |-> VScale(c, M[i])]

aggregate(dat, l) ==
    LET ide == Identity(IdeDim)
        n == Len(dat)
        x == VReduce([i \in 1..n |-> dat[i][1]])
        y == RSum([i \in 1..n |-> dat[i][2]])
        first_term == ScalarPlusMatrix(RMul(Rat(1, n), Dot(x, x)), MScale(l, ide))
        second_term == VScale(Rat(1, n), VScale(y, x))
    IN  << first_term, second_term >>

\* row c scaled to a unit pivot, and that row's multiples taken off the others
Pivot(M, c, p) ==
    Let2([M EXCEPT ![c] = M[p], ![p] = M[c]], Rat(M[p][c][2], M[p][c][1]),
         LAMBDA sw, inv :
             Let1(VScale(inv, sw[c]),
                  LAMBDA prow :
                      Tup([i \in 1..Len(sw) |->
                              IF i = c THEN prow
                              ELSE VSub(sw[i], VScale(sw[i][c], prow))])))

\* Gauss-Jordan elimination on the augmented matrix M of m rows, from column c
RECURSIVE Eliminate(_, _, _)
Eliminate(M, c, m) ==
    IF c > m THEN Ok([i \in 1..m |-> M[i][m + 1]])
    ELSE IF \A r \in c..m : M[r][c][1] = 0 THEN Failed("LinAlgError")
    ELSE Let3(Pivot(M, c, CHOOSE r \in c..m : /\ M[r][c][1] # 0
                                               /\ \A q \in c..(r - 1) : M[q][c][1] = 0),
              c + 1, m, Eliminate)

\* np.linalg.solve(A, b) for a square A and a one-dimensional b
LinalgSolve(A, b) ==
    IF Len(A) # Len(b) THEN Failed("ValueError")
    ELSE Eliminate(Tup([i \in 1..Len(A) |-> Append(Tup(A[i]), b[i])]), 1, Len(A))

solve_beta(dat, l) ==
    LET Ab == aggregate(dat, l) IN LinalgSolve(Ab[1], Ab[2])

Test ==
    /\ mode = "test"
    /\ pc = "call"
    /\ ret' = Ok(<< test(data, beta) >>)
    /\ pc' = "returned"
    /\ UNCHANGED << mode, data, lam, beta_0, beta0, max_iter, eps, k, beta, gd,
                    norm_grad, ls_x, ls_grad, ls_a, ls_b, ls_t, ls_j, ls_pc,
                    file, lines >>

SolveBeta ==
    /\ mode = "solve_beta"
    /\ pc = "call"
    /\ ret' = solve_beta(data, lam)
    /\ pc' = "returned"
    /\ UNCHANGED << mode, data, lam, beta_0, beta0, max_iter, eps, k, beta, gd,
                    norm_grad, ls_x, ls_grad, ls_a, ls_b, ls_t, ls_j, ls_pc,
                    file, lines >>

Scenario == << Rec(<<1, 2>>, 5), Rec(<<2, 1>>, 4) >>

EvalData ==
    TrainData \cup { Scenario,
                     << Rec(<<1, 1>>, 2) >>,
                     << Rec(<<1, 0>>, 1), Rec(<<0, 1>>, 1), Rec(<<1, 1>>, 3) >> }

EvalLams == { R(0), Rat(1, 4), R(1) }

IntVecs(d, S) == { IntVec(t) : t \in [1..d -> S] }

InitEval ==
    /\ mode \in {"test", "solve_beta"}
    /\ pc = "call"
    /\ data \in EvalData
    /\ lam \in EvalLams
    /\ beta \in IF mode = "test" THEN IntVecs(Dim(data), {0, 1, 2}) ELSE {NoVec}
    /\ beta_0 = NoVec /\ beta0 = Unbound /\ max_iter = 0 /\ eps = NoNum
    /\ k = 0 /\ gd = NoVec /\ norm_grad = NoNum
    /\ ls_x = NoVec /\ ls_grad = NoVec /\ ls_a = NoNum /\ ls_b = NoNum
    /\ ls_t = NoNum /\ ls_j = 0 /\ ls_pc = "idle"
    /\ ret = NoVec /\ file = NoVec /\ lines = NoVec

NextEval == Test \/ SolveBeta

SpecEval == InitEval /\ [][NextEval]_vars

----------------------------------------------------------------------------
(* Text: a string is a sequence of one-character strings *)

Digits == << "0", "1", "2", "3", "4", "5", "6", "7", "8", "9" >>

IsDigit(c) == \E i \in 1..10 : Digits[i] = c

DigitVal(c) == (CHOOSE i \in 1..10 : Digits[i] = c) - 1

IsSpace(c) == c \in { " ", "\n" }

\* str.split(sep): the fields of s between occurrences of sep
RECURSIVE SplitFrom(_, _, _, _, _)
SplitFrom(s, sep, i, cur, acc) ==
    IF i > Len(s) THEN Append(acc, cur)
    ELSE IF s[i] = sep THEN SplitFrom(s, sep, i + 1, << >>, Append(acc, cur))
    ELSE SplitFrom(s, sep, i + 1, Append(cur, s[i]), acc)

Split(s, sep) == SplitFrom(s, sep, 1, << >>, << >>)

\* sep.join(parts)
RECURSIVE Join(_, _)
Join(parts, sep) ==
    IF parts = << >> THEN << >>
    ELSE IF Len(parts) = 1 THEN parts[1]
    ELSE parts[1] \o << sep >> \o Join(Tail(parts), sep)

\* str.strip()
RECURSIVE LStrip(_)
LStrip(s) == IF s # << >> /\ IsSpace(s[1]) THEN LStrip(Tail(s)) ELSE s

RECURSIVE RStrip(_)
RStrip(s) ==
    IF s # << >> /\ IsSpace(s[Len(s)]) THEN RStrip(SubSeq(s, 1, Len(s) - 1))
    ELSE s

Strip(s) == RStrip(LStrip(s))

RECURSIVE NatStr(_)
NatStr(n) ==
    IF n < 10 THEN << Digits[n + 1] >>
    ELSE NatStr(n \div 10) \o << Digits[(n % 10) + 1] >>

\* the decimal digits of r/d, 0 <= r < d, for a d dividing a power of ten
RECURSIVE FracStr(_, _)
FracStr(r, d) ==
    IF (r * 10) % d = 0 THEN << Digits[((r * 10) \div d) + 1] >>
    ELSE << Digits[((r * 10) \div d) + 1] >> \o FracStr((r * 10) % d, d)

\* str(v) of a Python float v with 1e-4 <= |v| < 1e16 or v = 0.0
FloatStr(v) ==
    (IF v[1] < 0 THEN << "-" >> ELSE << >>)
        \o NatStr(Abs(v[1]) \div v[2]) \o << "." >> \o FracStr(Abs(v[1]) % v[2], v[2])

RECURSIVE DigitsVal(_, _)
DigitsVal(s, acc) ==
    IF s = << >> THEN acc ELSE DigitsVal(Tail(s), acc * 10 + DigitVal(s[1]))

RECURSIVE Pow10(_)
Pow10(n) == IF n = 0 THEN 1 ELSE 10 * Pow10(n - 1)

AllDigits(s) == \A i \in 1..Len(s) : IsDigit(s[i])

\* float(s) for s over digits, '.', '+', '-', blanks and letters that start
\* no float literal: << TRUE, value >>, or << FALSE, 0 >> for ValueError
ParseFloat(s) ==
    LET t == Strip(s)
        signed == t # << >> /\ t[1] \in { "-", "+" }
        body == IF signed THEN Tail(t) ELSE t
        parts == Split(body, ".")
        ip == parts[1]
        fp == IF Len(parts) = 2 THEN parts[2] ELSE << >>
        wellFormed == /\ Len(parts) <= 2
                      /\ AllDigits(ip) /\ AllDigits(fp)
                      /\ Len(ip) + Len(fp) >= 1
        mag == Rat(DigitsVal(ip \o fp, 0), Pow10(Len(fp)))
    IN  IF ~ wellFormed THEN << FALSE, R(0) >>
        ELSE << TRUE, IF signed /\ t[1] = "-" THEN RNeg(mag) ELSE mag >>

\* [float(w) for w in words]: the values, or ValueError at the first bad word
FloatList(words) ==
    IF \E i \in 1..Len(words) : ~ ParseFloat(words[i])[1]
    THEN Failed("ValueError")
    ELSE Ok([i \in 1..Len(words) |-> ParseFloat(words[i])[2]])

----------------------------------------------------------------------------
(* readBeta, writeBeta, readData *)

writeBeta(b) ==
    Join([i \in 1..Len(b) |-> FloatStr(b[i])], ",") \o << "\n" >>

readBeta(contents) == FloatList(Split(Strip(contents), ","))

\* one line of the data file: Ok(<< x, y >>) or ValueError
readLine(line) ==
    LET words == Split(line, ",")
        xs == FloatList(SubSeq(words, 1, Len(words) - 1))
        y == ParseFloat(words[Len(words)])
    IN  IF xs[1] # "ok" \/ ~ y[1] THEN Failed("ValueError")
        ELSE Ok(<< xs[2], y[2] >>)

\* the RDD readData builds, once an action materialises it: every line is
\* parsed, and one ValueError fails the whole job
readData(ls) ==
    IF \E i \in 1..Len(ls) : readLine(ls[i])[1] # "ok" THEN Failed("ValueError")
    ELSE Ok([i \in 1..Len(ls) |-> readLine(ls[i])[2]])

WriteBeta ==
    /\ mode = "beta_file"
    /\ pc = "call"
    /\ file' = writeBeta(beta)
    /\ pc' = "written"
    /\ UNCHANGED << mode, data, lam, beta_0, beta0, max_iter, eps, k, beta, gd,
                    norm_grad, ls_x, ls_grad, ls_a, ls_b, ls_t, ls_j, ls_pc,
                    ret, lines >>

ReadBeta ==
    /\ mode = "beta_file"
    /\ pc = "written"
    /\ ret' = readBeta(file)
    /\ pc' = "returned"
    /\ UNCHANGED << mode, data, lam, beta_0, beta0, max_iter, eps, k, beta, gd,
                    norm_grad, ls_x, ls_grad, ls_a, ls_b, ls_t, ls_j, ls_pc,
                    file, lines >>

ReadData ==
    /\ mode = "readData"
    /\ pc = "call"
    /\ ret' = readData(lines)
    /\ pc' = "returned"
    /\ UNCHANGED << mode, data, lam, beta_0, beta0, max_iter, eps, k, beta, gd,
                    norm_grad, ls_x, ls_grad, ls_a, ls_b, ls_t, ls_j, ls_pc,
                    file, lines >>

BetaVals == { R(0), R(1), Rat(-1, 2), Rat(5, 4), R(12) }

Vectors(n, S) == UNION { [1..m -> S] : m \in 0..n }

Chars(str) ==
    CASE str = "1.5" -> << "1", ".", "5" >>
      [] str = "-2" -> << "-", "2" >>
      [] str = "abc" -> << "a", "b", "c" >>
      [] str = "" -> << >>

Fields == { Chars("1.5"), Chars("-2"), Chars("abc"), Chars("") }

\* lines of 1..MaxFields comma-separated fields; a line of one empty field
\* is the empty line
Lines == { Join(fs, ",") : fs \in UNION { [1..m -> Fields] : m \in 1..MaxFields } }

InitIO ==
    /\ mode \in {"beta_file", "readData"}
    /\ pc = "call"
    /\ beta \in IF mode = "beta_file" THEN Vectors(MaxLen, BetaVals) ELSE {NoVec}
    /\ lines \in IF mode = "readData"
                 THEN { << l >> : l \in Lines }
                        \cup { << l1, l2 >> : l1 \in Lines, l2 \in Lines }
                 ELSE {NoVec}
    /\ data = NoVec /\ lam = NoNum
    /\ beta_0 = NoVec /\ beta0 = Unbound /\ max_iter = 0 /\ eps = NoNum
    /\ k = 0 /\ gd = NoVec /\ norm_grad = NoNum
    /\ ls_x = NoVec /\ ls_grad = NoVec /\ ls_a = NoNum /\ ls_b = NoNum
    /\ ls_t = NoNum /\ ls_j = 0 /\ ls_pc = "idle"
    /\ ret = NoVec /\ file = NoVec

NextIO == WriteBeta \/ ReadBeta \/ ReadData

SpecIO == InitIO /\ [][NextIO]_vars

----------------------------------------------------------------------------
(* Properties of lineSearch and train *)

RECURSIVE RPow(_, _)
RPow(b, j) == IF j = 0 THEN R(1) ELSE RMul(b, RPow(b, j - 1))

\* fun(x - t*grad) <= fun(x) - a*t*<grad,grad> for the current lineSearch call
ArmijoHolds(t) ==
    RLe(F(data, VSub(ls_x, VScale(t, ls_grad)), lam),
        RSub(F(data, ls_x, lam), RMul(RMul(ls_a, t), Dot(ls_grad, ls_grad))))

\* the least j in 0..MaxShrink with the Armijo condition at b^j, or
\* MaxShrink + 1 when there is none
RECURSIVE FirstArmijo(_, _)
FirstArmijo(j, t) ==
    IF j > MaxShrink \/ ArmijoHolds(t) THEN j
    ELSE Let2(j + 1, RMul(ls_b, t), FirstArmijo)

LeastJ == FirstArmijo(0, R(1))

ArmijoSatisfiable == LeastJ <= MaxShrink

\* C3: with max_iter = 0 train returns the beta_0 it was passed, and k = 0
C3_ReturnsBeta0 ==
    (mode = "train" /\ pc \in {"returned", "raised"} /\ max_iter = 0)
        => (pc = "returned" /\ ret[1] = beta_0 /\ ret[3] = 0)

\* C4: the gradNorm train returns is the norm of the gradient of F at the
\* beta it returns
C4_GradNormAtReturnedBeta ==
    (mode = "train" /\ pc = "returned")
        => ret[2] = NormSq(gradient(data, ret[1], lam))

\* C5: the t lineSearch returns satisfies the Armijo condition and is b^j
\* for the least j >= 0 at which the condition holds
C5_ArmijoAtLeastPower ==
    ls_pc = "returned"
        => /\ ArmijoHolds(ls_t)
           /\ \E j \in 0..MaxShrink :
                /\ ls_t = RPow(ls_b, j)
                /\ \A i \in 0..(j - 1) : ~ ArmijoHolds(RPow(ls_b, i))

C5_Witness ==
    /\ mode = "lineSearch"
    /\ ls_pc = "returned"
    /\ ls_j >= 2
    /\ ls_grad # Zeros(Len(ls_grad))

\* C8: train stops exactly when k >= max_iter or ||gd|| < eps: it is inside
\* an iteration only if k < max_iter and ||gd|| >= eps held at the loop
\* test, it returns only if k >= max_iter or ||gd|| < eps, and the returned
\* k never exceeds max_iter
C8_StopsExactly ==
    /\ (mode = "train" /\ pc = "lineSearch")
          => (k < max_iter /\ ~ NormLt(norm_grad, eps))
    /\ (mode = "train" /\ pc = "returned")
          => /\ (ret[3] >= max_iter \/ NormLt(ret[2], eps))
             /\ ret[3] <= max_iter

\* C9: every completed iteration of train leaves F no larger than before
C9_ObjectiveNonIncreasing ==
    [][(mode = "train" /\ pc = "lineSearch" /\ pc' = "loop")
          => RLe(F(data, beta', lam), F(data, beta, lam))]_vars

C9_Witness ==
    /\ mode = "train"
    /\ pc = "loop"
    /\ k = 2
    /\ ls_j >= 1
    /\ RLt(F(data, beta, lam), F(data, ls_x, lam))

SearchCanEnd == ls_pc = "search" /\ ArmijoSatisfiable

SearchEndedAtLeastJ == ls_pc = "returned" /\ ls_j = LeastJ

TrainCalled == mode = "train" /\ pc = "call"

TrainEndedOrSearchCannotEnd ==
    \/ pc \in {"returned", "raised"}
    \/ (ls_pc = "search" /\ ~ ArmijoSatisfiable)

ReturnedKWithinMaxIter ==
    (mode = "train" /\ pc = "returned") => ret[3] <= max_iter

\* C10: a lineSearch call whose Armijo condition holds at some b^j returns
\* after exactly j shrink steps for the least such j; train therefore ends
\* (unless a lineSearch call of it has no such j) after at most max_iter
\* iterations
C10_Terminates ==
    /\ SearchCanEnd ~> SearchEndedAtLeastJ
    /\ TrainCalled ~> TrainEndedOrSearchCannotEnd
    /\ []ReturnedKWithinMaxIter

C10_Witness ==
    /\ mode = "train"
    /\ pc = "returned"
    /\ ret[3] = max_iter
    /\ max_iter >= 2
    /\ ls_j >= 1

----------------------------------------------------------------------------
(* Properties of solve_beta, test and the file formats *)

\* (1/n) * sum of x_i x_i^T + l * I_d
NormalMatrix(dat, l) ==
    [i \in 1..Dim(dat) |-> [j \in 1..Dim(dat) |->
        RAdd(RMul(Rat(1, Len(dat)),
                  RSum([r \in 1..Len(dat) |-> RMul(dat[r][1][i], dat[r][1][j])])),
             IF i = j THEN l ELSE R(0))]]

\* (1/n) * sum of y_i * x_i
NormalVector(dat) ==
    [i \in 1..Dim(dat) |->
        RMul(Rat(1, Len(dat)),
             RSum([r \in 1..Len(dat) |-> RMul(dat[r][2], dat[r][1][i])]))]

MatVec(M, v) == [i \in 1..Len(M) |-> Dot(M[i], v)]

\* C1: solve_beta returns the beta with A*beta = b for A = (1/n) sum x x^T
\* + lambda I_d and b = (1/n) sum y x; on {((1,2),5), ((2,1),4)} with
\* lambda = 0 it returns (1, 2)
C1_SolvesNormalEquations ==
    (mode = "solve_beta" /\ pc = "returned")
        => /\ ret[1] = "ok"
           /\ Len(ret[2]) = Dim(data)
           /\ MatVec(NormalMatrix(data, lam), ret[2]) = NormalVector(data)
           /\ (data = Scenario /\ lam = R(0)) => ret[2] = IntVec(<< 1, 2 >>)

\* (1/n) * sum of (y - <x, b>)^2
PlainMSE(dat, b) ==
    RMul(Rat(1, Len(dat)),
         RSum([r \in 1..Len(dat) |->
                 RMul(RSub(dat[r][2], Dot(dat[r][1], b)),
                      RSub(dat[r][2], Dot(dat[r][1], b)))]))

\* C2: test returns the plain mean squared error, with no regularization
\* term added
C2_TestIsPlainMSE ==
    (mode = "test" /\ pc = "returned") => ret[2][1] = PlainMSE(data, beta)

\* C6: readBeta of what writeBeta wrote is the vector that was written,
\* for every length including 0
C6_BetaRoundTrip ==
    (mode = "beta_file" /\ pc = "returned") => ret = Ok(beta)

IsNumeric(w) == ParseFloat(w)[1]

\* a line with a non-numeric field, or with fewer than two fields
Malformed(line) ==
    \/ Len(Split(line, ",")) < 2
    \/ \E i \in 1..Len(Split(line, ",")) : ~ IsNumeric(Split(line, ",")[i])

\* C7: readData fails, with no record and no partial dataset, whenever a
\* line has a non-numeric field or too few fields
C7_MalformedLineFails ==
    (mode = "readData" /\ pc = "returned"
        /\ \E i \in 1..Len(lines) : Malformed(lines[i]))
        => ret = Failed("ValueError")

====
